---- MODULE Spec2Model ----
(***************************************************************************)
(* Model of the Defacto2 archive package: Extractor.Extract, its dispatch  *)
(* (checkSign, unknowns), the ZIP fallback chain (Zips), the adapters      *)
(* (Zip, Tar, Generic, ARJ, LHA, Rar, Zip7, Gzip) and HardLink, over a     *)
(* small file system shared by the extraction requests.                    *)
(***************************************************************************)
EXTENDS Integers, Sequences, FiniteSets, TLC

VARIABLES
    req,      \* req[p]: the Extractor and the arguments of request p
    pc,       \* pc[p]: position of request p
    cur,      \* cur[p]: the adapter method request p is in
    via,      \* via[p]: the caller of that adapter: "checkSign" or "Zips"
    targs,    \* targs[p]: the targets passed to the adapter
    tmp,      \* tmp[p]: the temporary artifact (copy or link) in use, or NoPath
    fs,       \* the file system: existing path |-> [data, by: the request that made it]
    rmlog,    \* the removals so far: [path, by, creator] (history)
    log,      \* log[p]: the adapter calls of request p, in order (history)
    ret,      \* ret[p]: what Extract returned
    call      \* a call of one of the package's functions: [fn, arg, res, done]

vars == <<req, pc, cur, via, targs, tmp, fs, rmlog, log, ret, call>>

\* ---------------------------------------------------------------- bounds
NumProcs == 2
MaxTargets == 1

Procs == 1..NumProcs

\* ------------------------------------------------------------ signatures
ZipSigns ==
    {"PKWAREZip", "PKWAREZip64", "PKWAREZipImplode", "PKWAREZipShrink", "PKWAREZipReduce"}

TarSigns ==
    {"Bzip2CompressArchive", "MicrosoftCABinet", "TapeARchive",
     "XZCompressArchive", "ZStandardArchive"}

RarSigns == {"RoshalARchive", "RoshalARchivev5"}

\* recognized signatures for which checkSign has no case
NoStrategySigns == {"PKLITE", "PKSFX", "PKWAREMultiVolume", "ZooArchive"}

Signs ==
    ZipSigns \cup TarSigns \cup RarSigns \cup NoStrategySigns \cup
    {"GzipCompressArchive", "ARChiveSEA", "ArchiveRobertJung", "YoshiLHA",
     "X7zCompressArchive", "Unknown"}

\* ------------------------------------------------------------ file system
Dirs == {"A", "B", "D", "E"}

NoPath == [dir |-> "", name |-> <<>>]

Join(dir, name) == [dir |-> dir, name |-> name]

Exists(f, q) == q \in DOMAIN f

\* os.Stat(dst) as Generic and ARJ read it
StatDst(dst) ==
    IF dst \in Dirs THEN "dir" ELSE IF dst = "afile" THEN "file" ELSE "missing"

Lower(s) ==
    CASE s = "ARJ" -> "arj"
      [] s = "T1" -> "t1"
      [] s = "APP" -> "app"
      [] s = "STUFF" -> "stuff"
      [] s = "FILE_ID" -> "file_id"
      [] s = "NFO" -> "nfo"
      [] s = "TXT" -> "txt"
      [] s = "DIZ" -> "diz"
      [] s = "EXE" -> "exe"
      [] OTHER -> s

\* strings.EqualFold on strings held as their dot-separated parts
EqualFold(a, b) ==
    /\ Len(a) = Len(b)
    /\ \A i \in 1..Len(a) : Lower(a[i]) = Lower(b[i])

\* filepath.Ext: the suffix from the last dot, "" (one empty part) when there is none
Ext(name) == IF Len(name) > 1 THEN <<"", name[Len(name)]>> ELSE <<"">>

\* src + require, for a require that starts with a dot
Concat(name, require) == name \o Tail(require)

arjx == <<"", "arj">>

\* ---------------------------------------------------------------- dispatch
\* the method checkSign calls for a signature
checkSign(sign) ==
    CASE sign = "GzipCompressArchive" -> "Gzip"
      [] sign \in {"PKWAREZipReduce", "PKWAREZipShrink"} -> "ZipHW"
      [] sign \in TarSigns -> "Tar"
      [] sign \in {"PKWAREZip", "PKWAREZip64", "PKWAREZipImplode"} -> "Zips"
      [] sign = "ARChiveSEA" -> "ARC"
      [] sign = "ArchiveRobertJung" -> "ARJ"
      [] sign = "YoshiLHA" -> "LHA"
      [] sign \in RarSigns -> "Rar"
      [] sign = "X7zCompressArchive" -> "Zip7"
      [] OTHER -> "unknowns"

\* the targets checkSign hands to the method: x.Gzip() and x.ZipHW() get none
checkSignTargets(sign, targets) ==
    IF checkSign(sign) \in {"Gzip", "ZipHW"} THEN <<>> ELSE targets

\* mutant: every signature without a case is reported as not implemented
unknowns_NoUnknown(sign) == "ErrNotImplemented"

unknowns(sign) == IF sign = "Unknown" THEN "ErrNotArchive" ELSE "ErrNotImplemented"

\* mutant: the chain goes on to hwzip after unzip succeeded
ZipsNext_AfterSuccess(last, failed, hasTargets) ==
    CASE last = "Zip" /\ hasTargets /\ failed -> "Tar"
      [] last = "Zip" /\ ~hasTargets -> "ZipHW"
      [] last = "ZipHW" /\ failed -> "Tar"
      [] OTHER -> "return"

\* mutant: hwzip is tried whether or not there are targets
ZipsNext_TargetsToHW(last, failed, hasTargets) ==
    CASE last = "Zip" /\ failed -> "ZipHW"
      [] last = "ZipHW" /\ failed -> "Tar"
      [] OTHER -> "return"

\* Zips after the call of adapter `last` returned: the next adapter, or "return"
ZipsNext(last, failed, hasTargets) ==
    CASE last = "Zip" /\ ~failed -> "return"
      [] last = "Zip" /\ failed /\ hasTargets -> "Tar"
      [] last = "Zip" /\ failed /\ ~hasTargets -> "ZipHW"
      [] last = "ZipHW" /\ failed -> "Tar"
      [] OTHER -> "return"

\* the targets Zips hands to the next adapter: x.ZipHW() and the x.Tar() after it get none
ZipsTargets(next, targets) == IF next = "ZipHW" THEN <<>> ELSE targets

\* the step errors wrapped by the error Zips returns when the chain is exhausted:
\* fmt.Errorf("archive zip extract all methods: %w", err), err being x.Zip's error
ZipsWraps(steps) == {e \in steps : e.adapter = "Zip"}

\* ---------------------------------------------------------------- programs
Program(adapter) ==
    CASE adapter = "Zip" -> "unzip"
      [] adapter = "Tar" -> "bsdtar"
      [] adapter = "TempTar" -> "bsdtar"
      [] adapter = "ZipHW" -> "hwzip"
      [] adapter = "ARC" -> "arc"
      [] adapter = "ARJ" -> "arj"
      [] adapter = "LHA" -> "lha"
      [] adapter = "Rar" -> "unrar"
      [] adapter = "Zip7" -> "7zz"
      [] OTHER -> "gzip"

\* how a started program can end: exit 0, exit 0 with no output, non-zero exit with a
\* diagnostic, non-zero exit without one, killed when the context's timeout expires
Outcomes == {"ok", "empty", "fail", "failq", "timeout"}

\* mutant: a program killed by the timeout is taken for a success
RunErr_TimeoutIsNil(adapter, outcome) ==
    CASE outcome = "fail" -> "ErrProg"
      [] outcome = "failq" -> "exit"
      [] outcome = "empty" /\ adapter = "LHA" -> "ErrRead"
      [] OTHER -> "nil"

\* the error the adapter returns for an outcome of cmd.Run / cmd.Output
RunErr(adapter, outcome) ==
    CASE outcome = "fail" -> "ErrProg"
      [] outcome = "failq" -> "exit"
      [] outcome = "timeout" -> "killed"
      [] outcome = "empty" /\ adapter = "LHA" -> "ErrRead"
      [] OTHER -> "nil"

\* the check of the destination that opens Generic and ARJ
StatErr(dst) ==
    CASE StatDst(dst) = "missing" -> "ErrNotExist"
      [] StatDst(dst) = "file" -> "ErrPath"
      [] OTHER -> "nil"

\* the check of the destination in Zip, Tar, Rar, Zip7 and gzip
DestErr(dst) == IF dst = "" THEN "ErrDest" ELSE "nil"

\* errors that report an invalid destination
DestInvalid == {"ErrDest", "ErrNotExist", "ErrPath"}

\* helper.Duplicate(src, name): creates name exclusively, fails when it exists
Duplicate(f, src, name, p) ==
    IF Exists(f, name) \/ ~Exists(f, src) \/ name.dir \notin Dirs
    THEN [err |-> "duplicate", fs |-> f]
    ELSE [err |-> "nil", fs |-> (name :> [data |-> f[src].data, by |-> p]) @@ f]

\* contents of a file: the path of the file it was copied or linked from, or
\* one of these
Truncated == [dir |-> "truncated", name |-> <<>>]

Gunzipped == [dir |-> "gunzipped", name |-> <<>>]

\* helper.DuplicateOW(src, name): creates or truncates name, then copies
DuplicateOW(f, src, name, p) ==
    IF ~Exists(f, src) \/ name.dir \notin Dirs
    THEN [err |-> "duplicate", fs |-> f]
    ELSE IF name = src
    THEN [err |-> "nil", fs |-> [f EXCEPT ![src].data = Truncated]]
    ELSE [err |-> "nil", fs |-> (name :> [data |-> f[src].data, by |-> p]) @@ f]

\* HardLink(require, src): link is what os.Link does when it is reached
HardLink(f, require, src, link, p) ==
    LET name == Join(src.dir, Concat(src.name, require)) IN
    IF Ext(require) = <<"">>
    THEN [name |-> NoPath, err |-> "ErrHLExt", fs |-> f]
    ELSE IF EqualFold(Ext(src.name), require)
    THEN [name |-> NoPath, err |-> "nil", fs |-> f]
    ELSE IF Exists(f, name)
    THEN [name |-> name, err |-> "nil", fs |-> f]
    ELSE IF link = "ok"
    THEN [name |-> name, err |-> "nil",
          fs |-> (name :> [data |-> f[src].data, by |-> p]) @@ f]
    ELSE [name |-> NoPath, err |-> "link", fs |-> f]

\* os.Remove(q)
Remove(f, q) == [x \in DOMAIN f \ {q} |-> f[x]]

\* mutant: Generic does not defer the removal of its copy
Deferred_NotGeneric(f, adapter, artifact) ==
    IF adapter \in {"ARJ", "TempTar"} /\ artifact # NoPath
    THEN [x \in DOMAIN f \ {artifact} |-> f[x]]
    ELSE f

\* the deferred os.Remove of Generic, ARJ and TempTar, run when the method returns
Deferred(f, adapter, artifact) ==
    IF adapter \in {"ZipHW", "ARC", "ARJ", "TempTar"} /\ artifact # NoPath
    THEN Remove(f, artifact)
    ELSE f

\* GzipName(src): the base name without its last extension
GzipName(name) == SubSeq(name, 1, Len(name) - 1)

\* ------------------------------------------------------------------ state
\* mutant: the error looked at is the one of the first call
Last_First(s) == s[1]

Last(s) == s[Len(s)]

Nil == [tag |-> "nil", wraps |-> {}]

NoRet == [tag |-> "none", wraps |-> {}]

\* the failed adapter calls of a request so far, as [adapter, err]
StepErrors(l) ==
    {[adapter |-> l[i].adapter, err |-> l[i].err] :
        i \in {j \in 1..Len(l) : l[j].err \notin {"nil", "pending"}}}

TargetSeqs == UNION {[1..n -> {"T1"}] : n \in 0..MaxTargets}

Sources == {Join("A", <<"ARCHIVE">>), Join("A", <<"ARCHIVE", "arj">>)}

Destinations == {"", "A", "D", "nodir", "afile"}

\* what pkzip.Methods reports for the source
MethodsResults(sign) ==
    IF sign \in ZipSigns THEN {"ok", "ErrPassParse", "ErrFormat"} ELSE {"unused"}

Requests ==
    {[src |-> s, dst |-> d, targets |-> t, sign |-> g, methods |-> m] :
        s \in Sources, d \in Destinations, t \in TargetSeqs,
        g \in Signs, m \in {"ok", "ErrPassParse", "ErrFormat", "unused"}}

\* files that can lie around before a request: a file named as the link, one named as the copy
Stale(r) ==
    {Join(r.src.dir, Concat(r.src.name, arjx))} \cup
    (IF r.dst \in Dirs /\ r.dst # r.src.dir THEN {Join(r.dst, r.src.name)} ELSE {})

SourceFile(q) == [data |-> q, by |-> 0]

OtherFile == [data |-> [dir |-> "other", name |-> <<>>], by |-> 0]

TypeOK ==
    /\ \A p \in Procs : pc[p] \in {"idle", "Extract", "Zips", "call", "run", "back", "done"}
    /\ \A q \in DOMAIN fs : q.dir \in Dirs

\* no function call is under way
NoCall == [fn |-> "none", arg |-> <<>>, res |-> <<>>, done |-> TRUE]

InitRest ==
    /\ cur = [p \in Procs |-> "none"]
    /\ via = [p \in Procs |-> "none"]
    /\ targs = [p \in Procs |-> <<>>]
    /\ tmp = [p \in Procs |-> NoPath]
    /\ rmlog = {}
    /\ log = [p \in Procs |-> <<>>]
    /\ ret = [p \in Procs |-> NoRet]

\* one request; the other requests never start
Init ==
    /\ \E r \in Requests :
        /\ r.methods \in MethodsResults(r.sign)
        /\ req = [p \in Procs |-> r]
        /\ \E old \in SUBSET Stale(r) :
            fs = [q \in {r.src} \cup old |-> IF q = r.src THEN SourceFile(q) ELSE OtherFile]
    /\ pc = [p \in Procs |-> IF p = 1 THEN "Extract" ELSE "idle"]
    /\ InitRest
    /\ call = NoCall

ConcSources == {Join("A", <<"ARCHIVE">>), Join("B", <<"ARCHIVE">>)}

\* one signature for each method of checkSign
ConcSigns ==
    {"ArchiveRobertJung", "ARChiveSEA", "PKWAREZip", "PKWAREZipShrink",
     "GzipCompressArchive", "TapeARchive", "RoshalARchive", "X7zCompressArchive",
     "YoshiLHA"}

\* the signatures whose adapters make a temporary artifact: ARJ (link), ARC (copy)
ArtifactSigns == {"ArchiveRobertJung", "ARChiveSEA"}

ConcRequests ==
    {[src |-> s, dst |-> d, targets |-> <<>>, sign |-> g, methods |-> m] :
        s \in ConcSources, d \in {"D", "E"}, g \in ConcSigns, m \in {"ok", "unused"}}

\* concurrent requests, no two with the same (source, destination) pair; the first is of
\* any kind, the others are of the kinds that make an artifact
ConcInit ==
    /\ \E rs \in [Procs -> ConcRequests] :
        /\ \A p \in Procs : rs[p].methods \in MethodsResults(rs[p].sign) \ {"ErrPassParse", "ErrFormat"}
        /\ \A p \in Procs \ {1} : rs[p].sign \in ArtifactSigns
        /\ \A p, q \in Procs :
            p # q => <<rs[p].src, rs[p].dst>> # <<rs[q].src, rs[q].dst>>
        /\ req = rs
        /\ fs = [q \in {rs[p].src : p \in Procs} |-> SourceFile(q)]
    /\ pc = [p \in Procs |-> "Extract"]
    /\ InitRest
    /\ call = NoCall

\* ---------------------------------------------------------------- actions
Return(p, r) ==
    /\ ret' = [ret EXCEPT ![p] = r]
    /\ pc' = [pc EXCEPT ![p] = "done"]

Call(p, adapter, caller, t) ==
    /\ pc' = [pc EXCEPT ![p] = "call"]
    /\ cur' = [cur EXCEPT ![p] = adapter]
    /\ via' = [via EXCEPT ![p] = caller]
    /\ targs' = [targs EXCEPT ![p] = t]

\* Extractor.Extract and checkSign: open the source, classify it, dispatch
Extract(p) ==
    /\ pc[p] = "Extract"
    /\ LET r == req[p]
           m == checkSign(r.sign) IN
        IF ~Exists(fs, r.src)
        THEN /\ Return(p, [tag |-> "open", wraps |-> {}])
             /\ UNCHANGED <<cur, via, targs>>
        ELSE IF m = "unknowns"
        THEN /\ Return(p, [tag |-> unknowns(r.sign), wraps |-> {}])
             /\ UNCHANGED <<cur, via, targs>>
        ELSE IF m = "Zips"
        THEN /\ pc' = [pc EXCEPT ![p] = "Zips"]
             /\ UNCHANGED <<cur, via, targs, ret>>
        ELSE /\ Call(p, m, "checkSign", checkSignTargets(r.sign, r.targets))
             /\ UNCHANGED ret
    /\ UNCHANGED <<req, tmp, fs, rmlog, log>>
    /\ UNCHANGED call

\* Extractor.Zips, up to its first adapter: the password check
Zips(p) ==
    /\ pc[p] = "Zips"
    /\ IF req[p].methods = "ErrPassParse"
       THEN /\ Return(p, [tag |-> "ErrPassParse", wraps |-> {}])
            /\ UNCHANGED <<cur, via, targs>>
       ELSE /\ Call(p, "Zip", "Zips", req[p].targets)
            /\ UNCHANGED ret
    /\ UNCHANGED <<req, tmp, fs, rmlog, log>>
    /\ UNCHANGED call

\* cmd.Dir of the adapter's program: Generic sets it to the destination and names the
\* copy by its base name; the other adapters leave it empty
CmdDir(adapter, arg) == IF adapter \in {"ZipHW", "ARC"} THEN arg.dir ELSE ""

\* the record of an adapter call: it ended before it started a program (e # "nil"),
\* or its program runs
Entry(adapter, e, t, arg, artifact) ==
    [adapter |-> adapter,
     dir |-> CmdDir(adapter, arg),
     prog |-> IF e = "nil" THEN Program(adapter) ELSE "none",
     targets |-> t,
     arg |-> arg,
     tmp |-> artifact,
     outcome |-> IF e = "nil" THEN "pending" ELSE "none",
     err |-> IF e = "nil" THEN "pending" ELSE e]

Enter(p, e, arg, artifact, f) ==
    /\ log' = [log EXCEPT ![p] = Append(@, Entry(cur[p], e, targs[p], arg, artifact))]
    /\ pc' = [pc EXCEPT ![p] = IF e = "nil" THEN "run" ELSE "back"]
    /\ tmp' = [tmp EXCEPT ![p] = IF e = "nil" THEN artifact ELSE NoPath]
    /\ fs' = f

\* the checks of Zip, Tar and Rar before the program starts
PlainPre(found, dst) == IF ~found THEN "lookpath" ELSE DestErr(dst)

\* Extractor.Zip up to cmd.Run
Zip(p) ==
    /\ pc[p] = "call" /\ cur[p] = "Zip"
    /\ \E found \in BOOLEAN :
        Enter(p, PlainPre(found, req[p].dst), req[p].src, NoPath, fs)
    /\ UNCHANGED <<req, cur, via, targs, rmlog, ret>>
    /\ UNCHANGED call

\* Extractor.Tar up to cmd.Run
Tar(p) ==
    /\ pc[p] = "call" /\ cur[p] = "Tar"
    /\ \E found \in BOOLEAN :
        Enter(p, PlainPre(found, req[p].dst), req[p].src, NoPath, fs)
    /\ UNCHANGED <<req, cur, via, targs, rmlog, ret>>
    /\ UNCHANGED call

\* Extractor.Rar up to cmd.Run
Rar(p) ==
    /\ pc[p] = "call" /\ cur[p] = "Rar"
    /\ \E found \in BOOLEAN :
        Enter(p, PlainPre(found, req[p].dst), req[p].src, NoPath, fs)
    /\ UNCHANGED <<req, cur, via, targs, rmlog, ret>>
    /\ UNCHANGED call

\* the checks of Zip7 before the program starts; magic is what MagicExt(src) gives
Zip7Pre(found, dst, magic) ==
    IF ~found THEN "lookpath"
    ELSE IF DestErr(dst) # "nil" THEN DestErr(dst)
    ELSE IF magic = "err" THEN "magic"
    ELSE IF magic # "7z" THEN "ErrExt"
    ELSE "nil"

\* Extractor.Zip7 up to cmd.Run
Zip7(p) ==
    /\ pc[p] = "call" /\ cur[p] = "Zip7"
    /\ \E found \in BOOLEAN, magic \in {"err", "7z", "zip"} :
        Enter(p, Zip7Pre(found, req[p].dst, magic), req[p].src, NoPath, fs)
    /\ UNCHANGED <<req, cur, via, targs, rmlog, ret>>
    /\ UNCHANGED call

\* the targets as Extractor.LHA leaves them: targets[i] = strings.ToLower(s)
LowerTargets(t) == [i \in 1..Len(t) |-> Lower(t[i])]

\* Extractor.LHA up to cmd.Output; the targets slice is the caller's
LHA(p) ==
    /\ pc[p] = "call" /\ cur[p] = "LHA"
    /\ \E found \in BOOLEAN :
        LET low == IF found THEN LowerTargets(targs[p]) ELSE targs[p] IN
        /\ targs' = [targs EXCEPT ![p] = low]
        /\ req' = [req EXCEPT ![p].targets = low]
        /\ log' = [log EXCEPT ![p] = Append(@,
                Entry("LHA", IF found THEN "nil" ELSE "lookpath", low, req[p].src, NoPath))]
        /\ pc' = [pc EXCEPT ![p] = IF found THEN "run" ELSE "back"]
    /\ UNCHANGED <<cur, via, tmp, fs, rmlog, ret>>
    /\ UNCHANGED call

\* mutant: Generic does not look at the destination before it copies
GenericPre_NoStat(dst, found) == IF ~found THEN "lookpath" ELSE "nil"

\* the checks of Generic before the copy: os.Stat(dst), IsDir, exec.LookPath
GenericPre(dst, found) ==
    IF StatErr(dst) # "nil" THEN StatErr(dst)
    ELSE IF ~found THEN "lookpath"
    ELSE "nil"

\* Extractor.Generic up to cmd.Run, for ZipHW and ARC
Generic(p) ==
    /\ pc[p] = "call" /\ cur[p] \in {"ZipHW", "ARC"}
    /\ \E found \in BOOLEAN :
        LET src == req[p].src
            dst == req[p].dst
            srcInDst == Join(dst, src.name)
            pre == GenericPre(dst, found)
            dup == Duplicate(fs, src, srcInDst, p)
            e == IF pre # "nil" THEN pre ELSE dup.err IN
        Enter(p, e, srcInDst,
              IF e = "nil" THEN srcInDst ELSE NoPath,
              IF e = "nil" THEN dup.fs ELSE fs)
    /\ UNCHANGED <<req, cur, via, targs, rmlog, ret>>
    /\ UNCHANGED call

\* Extractor.ARJ up to cmd.Run
ARJ(p) ==
    /\ pc[p] = "call" /\ cur[p] = "ARJ"
    /\ \E found \in BOOLEAN, link \in {"ok", "fail"} :
        LET src == req[p].src
            pre == GenericPre(req[p].dst, found)
            h == HardLink(fs, arjx, src, link, p)
            e == IF pre # "nil" THEN pre ELSE h.err
            newname == IF h.name # NoPath THEN h.name ELSE src IN
        Enter(p, e, newname,
              IF e = "nil" THEN h.name ELSE NoPath,
              IF e = "nil" THEN h.fs ELSE fs)
    /\ UNCHANGED <<req, cur, via, targs, rmlog, ret>>
    /\ UNCHANGED call

\* the checks of Extractor.gzip before the program starts
GzipPre(found, dst, duperr, magic) ==
    IF ~found THEN "lookpath"
    ELSE IF DestErr(dst) # "nil" THEN DestErr(dst)
    ELSE IF duperr # "nil" THEN duperr
    ELSE IF magic = "err" THEN "magic"
    ELSE "nil"

\* Extractor.Gzip, in Extractor.gzip up to cmd.Run: the copy is made before MagicExt
Gzip(p) ==
    /\ pc[p] = "call" /\ cur[p] = "Gzip"
    /\ \E found \in BOOLEAN, magic \in {"ok", "err"} :
        LET src == req[p].src
            dst == req[p].dst
            name == Join(dst, src.name)
            dup == DuplicateOW(fs, src, name, p)
            e == GzipPre(found, dst, dup.err, magic) IN
        Enter(p, e, name,
              IF e = "nil" THEN name ELSE NoPath,
              IF found /\ DestErr(dst) = "nil" THEN dup.fs ELSE fs)
    /\ UNCHANGED <<req, cur, via, targs, rmlog, ret>>
    /\ UNCHANGED call

\* the removals a step makes, for the history
Removals(f, g, p) ==
    {[path |-> q, by |-> p, creator |-> f[q].by] : q \in DOMAIN f \ DOMAIN g}

Finish(p, o, e) ==
    log' = [log EXCEPT ![p] = [@ EXCEPT ![Len(log[p])].err = e,
                                        ![Len(log[p])].outcome = o]]

OutcomesOf(adapter) == IF adapter = "LHA" THEN Outcomes ELSE Outcomes \ {"empty"}

\* cmd.Run returns in Zip, Tar, Rar, Zip7, LHA, Generic, ARJ and TempTar: the method
\* returns its error, and its deferred os.Remove runs
ProgramExit(p) ==
    /\ pc[p] = "run" /\ cur[p] # "Gzip"
    /\ \E o \in OutcomesOf(cur[p]) :
        Finish(p, o, RunErr(cur[p], o))
    /\ fs' = Deferred(fs, cur[p], tmp[p])
    /\ rmlog' = rmlog \cup Removals(fs, fs', p)
    /\ tmp' = [tmp EXCEPT ![p] = NoPath]
    /\ pc' = [pc EXCEPT ![p] = "back"]
    /\ UNCHANGED <<req, cur, via, targs, ret>>
    /\ UNCHANGED call

\* opentarball(name): the tarball that TempTar gets, NoPath for the empty Extractor
\* that it returns when MagicExt(tarball) is not ".tar"; a name without an extension
\* makes the tarball path the directory itself
opentarball(tarball, tarmagic) ==
    IF tarmagic = "tar" /\ tarball.name # <<>> THEN tarball ELSE NoPath

\* cmd.Run returns in Extractor.gzip; Gzip goes on to opentarball and TempTar
\* for a gzip-wrapped tar. gzip replaces the copy by the decompressed file.
GzipExit(p) ==
    /\ pc[p] = "run" /\ cur[p] = "Gzip"
    /\ \E o \in OutcomesOf("Gzip"), magic \in {"gz", "tgz"}, tarmagic \in {"tar", "data"},
          named \in BOOLEAN :
        LET e == RunErr("Gzip", o)
            name == tmp[p]
            tarball == Join(name.dir, GzipName(name.name))
            out == IF named /\ tarball.name # <<>>
                   THEN (tarball :> [data |-> Gunzipped, by |-> p]) @@ Remove(fs, name)
                   ELSE Remove(fs, name) IN
        IF e # "nil"
        THEN /\ Finish(p, o, e)
             /\ pc' = [pc EXCEPT ![p] = "back"]
             /\ tmp' = [tmp EXCEPT ![p] = NoPath]
             /\ UNCHANGED <<fs, cur>>
        ELSE /\ fs' = out
             /\ IF magic = "gz"
                THEN /\ Finish(p, o, "nil")
                     /\ pc' = [pc EXCEPT ![p] = "back"]
                     /\ tmp' = [tmp EXCEPT ![p] = NoPath]
                     /\ UNCHANGED cur
                ELSE IF tarball.name # <<>> /\ ~Exists(out, tarball)
                THEN /\ Finish(p, o, "opentarball")
                     /\ pc' = [pc EXCEPT ![p] = "back"]
                     /\ tmp' = [tmp EXCEPT ![p] = NoPath]
                     /\ UNCHANGED cur
                ELSE /\ Finish(p, o, "nil")
                     /\ pc' = [pc EXCEPT ![p] = "call"]
                     /\ cur' = [cur EXCEPT ![p] = "TempTar"]
                     /\ tmp' = [tmp EXCEPT ![p] = opentarball(tarball, tarmagic)]
    /\ UNCHANGED <<req, via, targs, rmlog, ret>>
    /\ UNCHANGED call

\* Extractor.TempTar on the Extractor of opentarball, in Tar up to cmd.Run;
\* the empty Extractor has no destination
TempTar(p) ==
    /\ pc[p] = "call" /\ cur[p] = "TempTar"
    /\ \E found \in BOOLEAN :
        LET xdst == IF tmp[p] = NoPath THEN "" ELSE tmp[p].dir
            e == PlainPre(found, xdst) IN
        /\ log' = [log EXCEPT ![p] = Append(@, Entry("TempTar", e, targs[p], tmp[p], tmp[p]))]
        /\ pc' = [pc EXCEPT ![p] = IF e = "nil" THEN "run" ELSE "back"]
        /\ fs' = IF e = "nil" THEN fs ELSE Deferred(fs, "TempTar", tmp[p])
        /\ tmp' = [tmp EXCEPT ![p] = IF e = "nil" THEN @ ELSE NoPath]
    /\ rmlog' = rmlog \cup Removals(fs, fs', p)
    /\ UNCHANGED <<req, cur, via, targs, ret>>
    /\ UNCHANGED call

\* the adapter returned to checkSign, and Extract returns its error
Back(p) ==
    /\ pc[p] = "back" /\ via[p] = "checkSign"
    /\ LET e == Last(log[p]).err IN
        Return(p, IF e = "nil" THEN Nil
                  ELSE [tag |-> e, wraps |-> {[adapter |-> cur[p], err |-> e]}])
    /\ UNCHANGED <<req, cur, via, targs, tmp, fs, rmlog, log>>
    /\ UNCHANGED call

\* the adapter returned to Zips: the next adapter of the chain, or the return
ZipsBack(p) ==
    /\ pc[p] = "back" /\ via[p] = "Zips"
    /\ LET e == Last(log[p]).err
           next == ZipsNext(cur[p], e # "nil", req[p].targets # <<>>) IN
        IF next = "return"
        THEN /\ Return(p, IF e = "nil" THEN Nil
                          ELSE [tag |-> "all methods", wraps |-> ZipsWraps(StepErrors(log[p]))])
             /\ UNCHANGED <<cur, via, targs>>
        ELSE /\ Call(p, next, "Zips", ZipsTargets(next, req[p].targets))
             /\ UNCHANGED ret
    /\ UNCHANGED <<req, tmp, fs, rmlog, log>>
    /\ UNCHANGED call

Step(p) ==
    \/ Extract(p)
    \/ Zips(p)
    \/ Zip(p)
    \/ Tar(p)
    \/ Rar(p)
    \/ Zip7(p)
    \/ LHA(p)
    \/ Generic(p)
    \/ ARJ(p)
    \/ Gzip(p)
    \/ GzipExit(p)
    \/ TempTar(p)
    \/ ProgramExit(p)
    \/ Back(p)
    \/ ZipsBack(p)

Next == \E p \in Procs : Step(p)

Spec == Init /\ [][Next]_vars

\* every started program ends, by itself or by its context's timeout, and a request
\* that can take a step takes it
FairSpec == Spec /\ \A p \in Procs : WF_vars(Step(p))

\* the requests run concurrently, each a sequence of blocking steps
ConcSpec == ConcInit /\ [][Next]_vars

\* ------------------------------------------------------------- properties
ChainOrder == <<"Zip", "ZipHW", "Tar">>

Returned(e) == e.err # "pending"

Failed(e) == e.err \notin {"nil", "pending"}

LinkOf(src) == Join(src.dir, Concat(src.name, arjx))

\* C1: in Zips without targets the adapters are attempted in the order unzip, hwzip,
\* bsdtar; an adapter is attempted only after the one before it returned a failure, so
\* none is attempted after a success.
C1_ZipsOrder ==
    \A p \in Procs :
        (via[p] = "Zips" /\ req[p].targets = <<>>) =>
            /\ Len(log[p]) <= Len(ChainOrder)
            /\ \A i \in 1..Len(log[p]) :
                /\ log[p][i].adapter = ChainOrder[i]
                /\ log[p][i].prog \in {"none", Program(ChainOrder[i])}
                /\ i > 1 => Failed(log[p][i - 1])

\* C1 witness: unzip and hwzip ran and failed, and bsdtar runs
C1_Witness ==
    \E p \in Procs :
        /\ via[p] = "Zips" /\ req[p].targets = <<>>
        /\ Len(log[p]) = Len(ChainOrder)
        /\ \A i \in 1..Len(log[p]) : log[p][i].prog = Program(ChainOrder[i])
        /\ pc[p] = "run"

\* C2: when every attempted step of the chain failed, the error Zips returns embeds the
\* failure of each attempted step.
C2_AllReasonsEmbedded ==
    \A p \in Procs :
        (pc[p] = "done" /\ ret[p].tag = "all methods") =>
            StepErrors(log[p]) \subseteq ret[p].wraps

\* C3: for every ZIP-family signature, a source that pkzip.Methods reports as password
\* protected makes Extract return that error with no adapter invoked.
C3_PasswordAborts ==
    \A p \in Procs :
        (pc[p] # "idle" /\ req[p].sign \in ZipSigns /\ req[p].methods = "ErrPassParse") =>
            /\ log[p] = <<>>
            /\ cur[p] = "none"
            /\ pc[p] = "done" => ret[p].tag = "ErrPassParse"

\* C4: once Generic has returned after copying the source into the destination, the
\* copy no longer exists, whatever the program's outcome.
C4_GenericCopyRemoved ==
    \A p \in Procs : \A i \in 1..Len(log[p]) :
        (/\ log[p][i].adapter \in {"ZipHW", "ARC"}
         /\ log[p][i].tmp # NoPath
         /\ Returned(log[p][i])) => ~Exists(fs, log[p][i].tmp)

\* C4 witness: Generic copied the source, its program was killed by the timeout, and
\* Generic returned
C4_Witness ==
    \E p \in Procs : \E i \in 1..Len(log[p]) :
        /\ log[p][i].adapter \in {"ZipHW", "ARC"}
        /\ log[p][i].tmp = Join(req[p].dst, req[p].src.name)
        /\ log[p][i].outcome = "timeout"
        /\ Returned(log[p][i])

\* C5: for a source without the .arj extension ARJ creates the link Source+".arj" to the
\* source and passes it to arj, and the link is gone when ARJ returns; for a source with
\* the extension the source is passed and no link is created.
C5_ArjLink ==
    \A p \in Procs : \A i \in 1..Len(log[p]) :
        (log[p][i].adapter = "ARJ" /\ log[p][i].prog # "none") =>
            LET src == req[p].src
                e == log[p][i] IN
            IF EqualFold(Ext(src.name), arjx)
            THEN /\ e.arg = src
                 /\ e.tmp = NoPath
                 /\ \A q \in DOMAIN fs : fs[q].by # p
            ELSE /\ e.arg = LinkOf(src)
                 /\ ~Returned(e) =>
                        /\ Exists(fs, LinkOf(src))
                        /\ fs[LinkOf(src)].data = fs[src].data
                 /\ Returned(e) => ~Exists(fs, LinkOf(src))

\* C6: each request's temporary artifact exists for as long as the request's program
\* runs, and is removed only by the request that created it.
C6_ArtifactsScoped ==
    /\ \A p \in Procs : (pc[p] = "run" /\ tmp[p] # NoPath) => Exists(fs, tmp[p])
    /\ \A r \in rmlog : r.by = r.creator

TimeoutsFail ==
    \A p \in Procs : \A i \in 1..Len(log[p]) :
        log[p][i].outcome = "timeout" =>
            /\ log[p][i].err # "nil"
            /\ (via[p] = "Zips" /\ log[p][i].adapter \in {"Zip", "ZipHW"} /\ pc[p] = "done")
                    => Len(log[p]) > i

\* C7: every Extract call returns; a program killed by its timeout is a failed step, and
\* after a timeout of unzip or hwzip the next adapter of the chain is attempted.
C7_ExtractReturns ==
    /\ \A p \in Procs : (pc[p] = "Extract") ~> (pc[p] = "done")
    /\ []TimeoutsFail

\* C7 witness: unzip was killed by the timeout and the next adapter's program was started
C7_Witness ==
    \E p \in Procs :
        /\ pc[p] = "done" /\ via[p] = "Zips"
        /\ log[p][1].outcome = "timeout"
        /\ Len(log[p]) > 1
        /\ log[p][2].prog # "none"

\* the first adapter of each signature's strategy
FirstAdapter(sign) ==
    CASE sign \in {"PKWAREZip", "PKWAREZip64", "PKWAREZipImplode"} -> "Zip"
      [] sign \in {"PKWAREZipShrink", "PKWAREZipReduce"} -> "ZipHW"
      [] sign \in TarSigns -> "Tar"
      [] sign \in RarSigns -> "Rar"
      [] sign = "GzipCompressArchive" -> "Gzip"
      [] sign = "ARChiveSEA" -> "ARC"
      [] sign = "ArchiveRobertJung" -> "ARJ"
      [] sign = "YoshiLHA" -> "LHA"
      [] sign = "X7zCompressArchive" -> "Zip7"
      [] OTHER -> "none"

\* C8: Extract returns ErrNotArchive for Unknown and ErrNotImplemented for a recognized
\* signature without a strategy, invoking no adapter; every other signature goes to its
\* one strategy and gets neither of the two errors.
C8_Dispatch ==
    \A p \in Procs :
        LET g == req[p].sign IN
        /\ (g = "Unknown" /\ pc[p] # "idle") =>
            /\ log[p] = <<>> /\ cur[p] = "none" /\ pc[p] \in {"Extract", "done"}
            /\ pc[p] = "done" => ret[p].tag = "ErrNotArchive"
        /\ (g \in NoStrategySigns /\ pc[p] # "idle") =>
            /\ log[p] = <<>> /\ cur[p] = "none" /\ pc[p] \in {"Extract", "done"}
            /\ pc[p] = "done" => ret[p].tag = "ErrNotImplemented"
        /\ (g \notin NoStrategySigns \cup {"Unknown"} /\ pc[p] \notin {"idle", "Extract"}) =>
            /\ ret[p].tag \notin {"ErrNotArchive", "ErrNotImplemented"}
            /\ pc[p] = "Zips" \/ cur[p] # "none" \/ ret[p].tag = "ErrPassParse"
            /\ log[p] # <<>> => log[p][1].adapter = FirstAdapter(g)

\* C8 witness: Extract returned for a source of unknown signature
C8_Witness ==
    \E p \in Procs : pc[p] = "done" /\ req[p].sign = "Unknown" /\ ret[p].tag = "ErrNotArchive"

C10_DestInvalidNotRetried ==
    \A p \in Procs : \A i \in 1..Len(log[p]) :
        (via[p] = "Zips" /\ log[p][i].err \in DestInvalid) =>
            /\ Len(log[p]) = i
            /\ pc[p] = "done" =>
                [adapter |-> log[p][i].adapter, err |-> log[p][i].err] \in ret[p].wraps

\* the copy of the source that Generic and gzip place in the destination
CopyOf(r) == Join(r.dst, r.src.name)

\* C11: no extraction operation removes, renames or overwrites the source archive,
\* whatever the source and the destination, and the only paths it writes are inside
\* the destination directory or the Source+extension link beside the source.
C11_SourceKept ==
    \A p \in Procs :
        pc[p] # "idle" =>
            /\ Exists(fs, req[p].src)
            /\ fs[req[p].src] = SourceFile(req[p].src)
            /\ \A q \in DOMAIN fs :
                fs[q].by = p => (q.dir = req[p].dst \/ q = LinkOf(req[p].src))

\* C12: when Gzip has returned, on success and on every failure path, the compressed
\* copy it placed in the destination is gone, and so is the intermediate tarball of a
\* gzip-wrapped tar.
C12_GzipCleansUp ==
    \A p \in Procs :
        (req[p].sign = "GzipCompressArchive" /\ pc[p] = "done"
            /\ CopyOf(req[p]) # req[p].src) =>
            /\ ~(Exists(fs, CopyOf(req[p])) /\ fs[CopyOf(req[p])].by = p)
            /\ \A i \in 1..Len(log[p]) :
                (log[p][i].adapter = "TempTar" /\ log[p][i].arg # NoPath) =>
                    ~Exists(fs, log[p][i].arg)

\* C13: Generic verifies the destination, copies the source into it, runs the program
\* with its working directory set to the destination, and removes the copy, in this
\* order; with a destination that is missing or not a directory it fails before any
\* file is copied and before any program is started.
C13_GenericOrder ==
    \A p \in Procs : \A i \in 1..Len(log[p]) :
        LET e == log[p][i]
            dst == req[p].dst IN
        e.adapter \in {"ZipHW", "ARC"} =>
            /\ StatDst(dst) # "dir" =>
                /\ e.err = StatErr(dst)
                /\ e.prog = "none" /\ e.tmp = NoPath
                /\ \A q \in DOMAIN fs : fs[q].by # p
            /\ e.prog # "none" =>
                /\ StatDst(dst) = "dir"
                /\ e.tmp = CopyOf(req[p])
                /\ e.dir = dst
                /\ ~Returned(e) =>
                    /\ Exists(fs, e.tmp)
                    /\ fs[e.tmp] = [data |-> req[p].src, by |-> p]
                /\ Returned(e) => ~Exists(fs, e.tmp)

\* C13 witness: the program of Generic runs in the destination, beside the copy
C13_Witness ==
    \E p \in Procs : \E i \in 1..Len(log[p]) :
        /\ log[p][i].adapter \in {"ZipHW", "ARC"}
        /\ log[p][i].prog # "none"
        /\ ~Returned(log[p][i])
        /\ log[p][i].dir = req[p].dst
        /\ Exists(fs, CopyOf(req[p]))

\* C14: Zips returns success exactly when one of the steps it attempted succeeded; when
\* unzip failed and a later step succeeded the result is success and carries nothing of
\* the first step's failure.
C14_ZipsSuccess ==
    \A p \in Procs :
        (checkSign(req[p].sign) = "Zips" /\ pc[p] = "done") =>
            /\ ret[p].tag = "nil" <=> \E i \in 1..Len(log[p]) : log[p][i].err = "nil"
            /\ ret[p].tag = "nil" => ret[p].wraps = {}

\* C14 witness: unzip failed, hwzip succeeded, and Zips returned success
C14_Witness ==
    \E p \in Procs :
        /\ via[p] = "Zips" /\ pc[p] = "done"
        /\ Len(log[p]) = 2
        /\ log[p][1].outcome = "fail"
        /\ log[p][2].adapter = "ZipHW" /\ log[p][2].outcome = "ok"
        /\ ret[p] = Nil

\* ------------------------------------------------- package pkzip (functions)
\* bounds of the ZIP files read: the method codes 0..MaxMethod, at most MaxEntries entries
MaxMethod == 10
MaxEntries == 2

\* an entry header: the 16-bit compression method code and the encryption bit of the
\* general-purpose flags
EntryHeaders == [code : 0..MaxMethod, enc : BOOLEAN]

\* the files: ZIP containers with their entries in archival order, and a file that is
\* not a ZIP
ZipFiles ==
    {[zip |-> TRUE, entries |-> e] :
        e \in UNION {[1..n -> EntryHeaders] : n \in 0..MaxEntries}}
    \cup {[zip |-> FALSE, entries |-> <<>>]}

\* Compression(code).String()
Compression(code) ==
    CASE code = 0 -> "Stored"
      [] code = 1 -> "Shrunk"
      [] code \in 2..5 -> "Reduced"
      [] code = 6 -> "Imploded"
      [] code = 8 -> "Deflated"
      [] code = 9 -> "EnhancedDeflated"
      [] OTHER -> "Reserved"

\* mutant: the methods read before an encrypted entry are returned with the error
RECURSIVE MethodsFrom_Partial(_, _, _)
MethodsFrom_Partial(entries, i, acc) ==
    IF i > Len(entries) THEN [list |-> acc, err |-> "nil"]
    ELSE IF entries[i].enc THEN [list |-> acc, err |-> "ErrPassParse"]
    ELSE MethodsFrom_Partial(entries, i + 1, Append(acc, Compression(entries[i].code)))

\* the read of the entry headers from entry i on, acc being the methods read so far
RECURSIVE MethodsFrom(_, _, _)
MethodsFrom(entries, i, acc) ==
    IF i > Len(entries) THEN [list |-> acc, err |-> "nil"]
    ELSE IF entries[i].enc THEN [list |-> <<>>, err |-> "ErrPassParse"]
    ELSE MethodsFrom(entries, i + 1, Append(acc, Compression(entries[i].code)))

\* pkzip.Methods(name): the methods in entry order, or no list and an error
Methods(file) ==
    IF ~file.zip THEN [list |-> <<>>, err |-> "ErrFormat"]
    ELSE MethodsFrom(file.entries, 1, <<>>)

\* mutant: every method but the obsolete Shrunk and Reduced counts as usable
CompressionZip_NotObsolete(method) == method \notin {"Shrunk", "Reduced"}

\* Compression.Zip(): the method is one of those of the standard zip tooling
CompressionZip(method) == method \in {"Stored", "Deflated"}

\* the loop of pkzip.Zip over the methods: false at the first one that is not usable
RECURSIVE ZipFrom(_, _)
ZipFrom(list, i) ==
    IF i > Len(list) THEN TRUE
    ELSE IF ~CompressionZip(list[i]) THEN FALSE
    ELSE ZipFrom(list, i + 1)

\* pkzip.Zip(name)
pkzipZip(file) ==
    LET m == Methods(file) IN
    IF m.err # "nil" THEN [usable |-> FALSE, err |-> m.err]
    ELSE [usable |-> ZipFrom(m.list, 1), err |-> "nil"]

\* the exit statuses of the unzip program: 0..MaxStatus, and -1 for a program that
\* ended without one (killed by the timeout, or never started)
MaxStatus == 83

Statuses == -1..MaxStatus

\* the statuses the unzip family documents
DocumentedStatuses == {0, 1, 2, 3, 4, 5, 6, 7, 9, 10, 11, 50, 51, 80, 81}

Diagnostics ==
    {"Normal", "Warning", "ArchiveStructureError", "SevereArchiveError",
     "InsufficientMemory", "DecompressionFailure", "PrematureEndOfArchive",
     "ZipNotFound", "NoMatchingEntries", "DiskFull", "UserAbort", "InvalidParameters",
     "UnknownStatus"}

\* mutant: a status that is not documented is taken for a normal end
ExitStatus_DefaultNormal(status) ==
    CASE status = 1 -> "Warning"
      [] status = 2 -> "ArchiveStructureError"
      [] status = 3 -> "SevereArchiveError"
      [] status \in 4..7 -> "InsufficientMemory"
      [] status = 9 -> "ZipNotFound"
      [] status = 10 -> "InvalidParameters"
      [] status = 11 -> "NoMatchingEntries"
      [] status = 50 -> "DiskFull"
      [] status = 51 -> "PrematureEndOfArchive"
      [] status = 80 -> "UserAbort"
      [] status = 81 -> "DecompressionFailure"
      [] OTHER -> "Normal"

\* pkzip.ExitStatus(err), err holding the program's exit status
ExitStatus(status) ==
    CASE status = 0 -> "Normal"
      [] status = 1 -> "Warning"
      [] status = 2 -> "ArchiveStructureError"
      [] status = 3 -> "SevereArchiveError"
      [] status \in 4..7 -> "InsufficientMemory"
      [] status = 9 -> "ZipNotFound"
      [] status = 10 -> "InvalidParameters"
      [] status = 11 -> "NoMatchingEntries"
      [] status = 50 -> "DiskFull"
      [] status = 51 -> "PrematureEndOfArchive"
      [] status = 80 -> "UserAbort"
      [] status = 81 -> "DecompressionFailure"
      [] OTHER -> "UnknownStatus"

\* ------------------------------------------------------------ package rezip
\* the inputs of rezip.Test: whether unzip is found, what os.Stat(name) gives, and the
\* exit status of the unzip run
TestInputs ==
    [found : BOOLEAN, stat : {"missing", "dir", "empty", "file"}, status : Statuses]

\* mutant: a warning of unzip fails the test
Test_WarningFails(in) ==
    IF ~in.found THEN [err |-> "lookpath", ran |-> FALSE]
    ELSE IF in.stat = "missing" THEN [err |-> "stat", ran |-> FALSE]
    ELSE IF in.stat \in {"dir", "empty"} THEN [err |-> "ErrTest", ran |-> FALSE]
    ELSE IF in.status = 0 THEN [err |-> "nil", ran |-> TRUE]
    ELSE IF ExitStatus(in.status) = "Normal" THEN [err |-> "nil", ran |-> TRUE]
    ELSE [err |-> "ErrTest", ran |-> TRUE]

\* rezip.Test(name): the error it returns, and whether it ran the program
Test(in) ==
    IF ~in.found THEN [err |-> "lookpath", ran |-> FALSE]
    ELSE IF in.stat = "missing" THEN [err |-> "stat", ran |-> FALSE]
    ELSE IF in.stat = "dir" THEN [err |-> "ErrTest", ran |-> FALSE]
    ELSE IF in.stat = "empty" THEN [err |-> "ErrTest", ran |-> FALSE]
    ELSE IF in.status = 0 THEN [err |-> "nil", ran |-> TRUE]
    ELSE IF ExitStatus(in.status) \in {"Normal", "Warning"} THEN [err |-> "nil", ran |-> TRUE]
    ELSE [err |-> "ErrTest", ran |-> TRUE]

\* ------------------------------------------------------------ MagicExt
\* the words of a magic description, as strings.Split(magic, " ") gives them
MaxWords == 5

Words == {"lha", "lharc", "archive", "data", "x"}

Magics == UNION {[1..n -> Words] : n \in 1..MaxWords}

\* foundLHA(magic): "true", "false", or "panic" where the slice s[2:4] exceeds the
\* capacity of the slice that strings.Split returned
foundLHA(s) ==
    IF s[1] = "lharc" THEN "true"
    ELSE IF s[1] # "lha" THEN "false"
    ELSE IF Len(s) < 3 THEN "false"
    ELSE IF SubSeq(s, 1, 3) = <<"lha", "archive", "data">> THEN "true"
    ELSE IF Len(s) < 4 THEN "panic"
    ELSE IF SubSeq(s, 3, 4) = <<"archive", "data">> THEN "true"
    ELSE "false"

\* ---------------------------------------------------------------- Readme
\* the file names of an archive, as stem and extension, at most MaxFiles of them
MaxFiles == 2

FileNames == [stem : {"APP", "app", "STUFF", "FILE_ID"}, ext : {"NFO", "nfo", "TXT", "DIZ", "EXE"}]

NoName == [stem |-> "", ext |-> ""]

\* the arguments of Readme: the archive's file name (its stem) and the files
ReadmeInputs ==
    [filename : {"APP", "FILE_ID"},
     files : UNION {[1..n -> FileNames] : n \in 0..MaxFiles}]

\* mutant: [archive name].diz is ranked before FILE_ID.DIZ
matchs_DizSwapped(file, base) ==
    LET stem == Lower(file.stem)
        ext == Lower(file.ext) IN
    CASE stem = base /\ ext = "nfo" -> 1
      [] stem = base /\ ext = "txt" -> 2
      [] ext = "nfo" -> 3
      [] stem = base /\ ext = "diz" -> 4
      [] stem = "file_id" /\ ext = "diz" -> 5
      [] ext = "txt" -> 6
      [] ext = "diz" -> 7
      [] OTHER -> 0

\* matchs(file, name, base, finds): the Usability (Lvl1..Lvl7) stored for the file,
\* 0 for none; name is the file name in lower case
matchs(file, base) ==
    LET stem == Lower(file.stem)
        ext == Lower(file.ext) IN
    CASE stem = base /\ ext = "nfo" -> 1
      [] stem = base /\ ext = "txt" -> 2
      [] ext = "nfo" -> 3
      [] stem = "file_id" /\ ext = "diz" -> 4
      [] stem = base /\ ext = "diz" -> 5
      [] ext = "txt" -> 6
      [] ext = "diz" -> 7
      [] OTHER -> 0

\* the Finds map that Readme fills: the files with a .diz, .nfo or .txt extension,
\* each with its Usability
ReadmeFinds(filename, files) ==
    LET base == Lower(filename)
        kept == {i \in 1..Len(files) : Lower(files[i].ext) \in {"diz", "nfo", "txt"}} IN
    {[Filename |-> files[i], Usability |-> matchs(files[i], base)] : i \in kept}

\* Finds.BestMatch(): the results it can give. The matches are sorted by Usability and
\* the first is returned; matches of one Usability keep the order of the map's range.
BestMatch(finds) ==
    IF finds = {} THEN {NoName}
    ELSE {m.Filename : m \in {x \in finds : \A y \in finds : x.Usability <= y.Usability}}

\* Readme(filename, files...): the results it can give
Readme(in) == BestMatch(ReadmeFinds(in.filename, in.files))

\* ------------------------------------------------------------- HardLink
targzx == <<"", "tar", "gz">>

\* the calls of HardLink: require, a touched source file and whether a file is already at
\* src+require (the undotted "arj" is the invalid require of the test)
HardLinkInputs ==
    [require : {arjx, <<"", "ARJ">>, targzx, <<"arj">>},
     src : {Join("A", n) : n \in {<<"ARCHIVE">>, <<"ARCHIVE", "arj">>, <<"ARCHIVE", "ARJ">>,
                                  <<"ARCHIVE", "tar", "gz">>, <<"ARCHIVE", "gz">>}},
     exists : BOOLEAN]

\* the path src+require of a call
HardLinkName(in) == Join(in.src.dir, Concat(in.src.name, in.require))

\* the files before a call of HardLink
HardLinkFiles(in) ==
    (in.src :> SourceFile(in.src)) @@
    (IF in.exists /\ Ext(in.require) # <<"">>
     THEN HardLinkName(in) :> OtherFile ELSE <<>>)

\* ------------------------------------------------------ MagicExt and Read
\* the descriptions MagicExt has an extension for
magics ==
    [m \in {<<"arc", "archive", "data">>, <<"arj", "archive", "data">>,
            <<"bzip2", "compressed", "data">>, <<"gzip", "compressed", "data">>,
            <<"rar", "archive", "data">>, <<"posix", "tar", "archive">>,
            <<"zip", "archive", "data">>, <<"7-zip", "archive", "data">>} |->
        CASE m[1] = "arc" -> ".arc"
          [] m[1] = "arj" -> ".arj"
          [] m[1] = "bzip2" -> ".bz2"
          [] m[1] = "gzip" -> ".gz"
          [] m[1] = "rar" -> ".rar"
          [] m[1] = "posix" -> ".tar"
          [] m[1] = "zip" -> ".zip"
          [] m[1] = "7-zip" -> ".7z"]

\* a run of the file program: not found, failed, or its output up to the first comma, as
\* lower-case words (no word for an empty output)
MagicInputs ==
    [run : {"ok", "lookpath", "fail"},
     out : Magics \cup DOMAIN magics \cup {<<"microsoft", "cabinet", "archive", "data">>, <<>>}]

\* MagicExt(src): the extension and the error, "panic" where foundLHA panics
MagicExt(in) ==
    IF in.run = "lookpath" THEN [ext |-> "", err |-> "lookup"]
    ELSE IF in.run = "fail" THEN [ext |-> "", err |-> "command"]
    ELSE IF in.out = <<>> THEN [ext |-> "", err |-> "ErrRead"]
    ELSE IF foundLHA(in.out) = "panic" THEN [ext |-> "", err |-> "panic"]
    ELSE IF foundLHA(in.out) = "true" THEN [ext |-> ".lha", err |-> "nil"]
    ELSE IF in.out \in DOMAIN magics THEN [ext |-> magics[in.out], err |-> "nil"]
    ELSE [ext |-> "", err |-> "ErrExt"]

\* the switch of Content.Read: the reader of an extension, "none" for the fall-through
Reader(ext) ==
    CASE ext = ".7z" -> "Zip7"
      [] ext = ".arc" -> "ARC"
      [] ext = ".arj" -> "ARJ"
      [] ext = ".gz" -> "Gzip"
      [] ext \in {".lha", ".lzh"} -> "LHA"
      [] ext = ".rar" -> "Rar"
      [] ext = ".tar" -> "Tar"
      [] ext = ".zip" -> "Zip"
      [] OTHER -> "none"

\* Content.Read(src): the reader it dispatched to and the error it returns, where the
\* reader returns rerr
Read(in, rerr) ==
    LET m == MagicExt(in) IN
    IF m.err # "nil" THEN [ext |-> m.ext, reader |-> "none", err |-> m.err]
    ELSE IF Reader(m.ext) = "none" THEN [ext |-> m.ext, reader |-> "none", err |-> "ErrRead"]
    ELSE [ext |-> m.ext, reader |-> Reader(m.ext), err |-> rerr]

\* --------------------------------------------------- the list parsers
\* The output of a list command, line by line. A line is the table's header ("header"),
\* a separator of dashes or of equal signs ("sep"), the indented closing line of the arc
\* table ("end"), a row of a file ("row1", "row2"), the summary row ("total"), an empty
\* line ("blank"), or a line of other text ("text").
MaxRows == 2

Rows == {"row1", "row2"}

\* the listings a list command prints: text or nothing, the header, the separator, at most
\* MaxRows rows or empty lines, the closing line, and the summary row or empty lines
Listings(closing) ==
    {pre \o <<"header", "sep">> \o rows \o <<closing>> \o post :
        pre \in {<<>>, <<"blank">>, <<"text">>},
        rows \in UNION {[1..n -> Rows \cup {"blank"}] : n \in 0..MaxRows},
        post \in {<<>>, <<"total">>, <<"total", "blank">>, <<"blank", "total">>}}

\* len(line): an empty line is its line feed, a line of text is shorter than a table row
LineLen(line) ==
    CASE line = "blank" -> 1
      [] line = "text" -> 20
      [] OTHER -> 80

\* the columns of the file name: line[0:12] for arc and arj, line[padd:] for lha and 7z
nameCol == 12
lhaPadd == 51
zip7Padd == 53
tableEnd == 2

\* string(line[0:12]): the name of a row, the start of any other line
Name12(line) ==
    CASE line = "row1" -> "TESTDAT1.TXT"
      [] line = "row2" -> "TESTDAT2.TXT"
      [] OTHER -> line

\* strings.TrimSpace(string(line[padd:])): the name of a row; the summary row of lha has
\* nothing in that column, the one of 7z has the number of files
NamePadd(line, summary) ==
    CASE line = "row1" -> "TESTDAT1.TXT"
      [] line = "row2" -> "TESTDAT2.TXT"
      [] line = "total" -> summary
      [] OTHER -> ""

\* the body of the loop of arcFiles
arcLine(line, skipped) ==
    IF line = "header" THEN "continue"
    ELSE IF line = "sep" THEN "continue"
    ELSE IF line = "end" THEN "return"
    ELSE IF LineLen(line) < nameCol THEN "panic"
    ELSE "append"

RECURSIVE arcFrom(_, _, _, _)
arcFrom(out, i, skipped, files) ==
    IF i > Len(out) THEN [files |-> files, panic |-> FALSE]
    ELSE LET step == arcLine(out[i], skipped) IN
         CASE step = "count" -> arcFrom(out, i + 1, skipped + 1, files)
           [] step = "continue" -> arcFrom(out, i + 1, skipped, files)
           [] step = "return" -> [files |-> files, panic |-> FALSE]
           [] step = "panic" -> [files |-> <<>>, panic |-> TRUE]
           [] step = "append" ->
                arcFrom(out, i + 1, skipped, Append(files, Name12(out[i])))

arcFiles(out) == arcFrom(out, 1, 0, <<>>)

\* the body of the loop of arjFiles
arjLine(line, skipped) ==
    IF line = "header" THEN "count"
    ELSE IF line = "sep" THEN "count"
    ELSE IF skipped = 0 THEN "continue"
    ELSE IF skipped > tableEnd THEN "return"
    ELSE IF LineLen(line) < nameCol THEN "panic"
    ELSE "append"

RECURSIVE arjFrom(_, _, _, _)
arjFrom(out, i, skipped, files) ==
    IF i > Len(out) THEN [files |-> files, panic |-> FALSE]
    ELSE LET step == arjLine(out[i], skipped) IN
         CASE step = "count" -> arjFrom(out, i + 1, skipped + 1, files)
           [] step = "continue" -> arjFrom(out, i + 1, skipped, files)
           [] step = "return" -> [files |-> files, panic |-> FALSE]
           [] step = "panic" -> [files |-> <<>>, panic |-> TRUE]
           [] step = "append" ->
                arjFrom(out, i + 1, skipped, Append(files, Name12(out[i])))

arjFiles(out) == arjFrom(out, 1, 0, <<>>)

\* the body of the loop of lhaFiles
lhaLine(line, skipped) ==
    IF line = "header" THEN "count"
    ELSE IF line = "sep" THEN "count"
    ELSE IF skipped = 0 THEN "continue"
    ELSE IF skipped > 2 THEN "return"
    ELSE IF LineLen(line) < lhaPadd THEN "continue"
    ELSE IF NamePadd(line, "") = "" THEN "continue"
    ELSE "append"

RECURSIVE lhaFrom(_, _, _, _)
lhaFrom(out, i, skipped, files) ==
    IF i > Len(out) THEN [files |-> files, panic |-> FALSE]
    ELSE LET step == lhaLine(out[i], skipped) IN
         CASE step = "count" -> lhaFrom(out, i + 1, skipped + 1, files)
           [] step = "continue" -> lhaFrom(out, i + 1, skipped, files)
           [] step = "return" -> [files |-> files, panic |-> FALSE]
           [] step = "panic" -> [files |-> <<>>, panic |-> TRUE]
           [] step = "append" ->
                lhaFrom(out, i + 1, skipped, Append(files, NamePadd(out[i], "")))

lhaFiles(out) == lhaFrom(out, 1, 0, <<>>)

\* mutant: the table ends one separator later
zip7Line_LateEnd(line, skipped) ==
    IF line = "header" THEN "count"
    ELSE IF line = "sep" THEN "count"
    ELSE IF skipped = 0 THEN "continue"
    ELSE IF skipped > tableEnd + 1 THEN "return"
    ELSE IF LineLen(line) < zip7Padd THEN "continue"
    ELSE "append"

\* the body of the loop of zip7files
zip7Line(line, skipped) ==
    IF line = "header" THEN "count"
    ELSE IF line = "sep" THEN "count"
    ELSE IF skipped = 0 THEN "continue"
    ELSE IF skipped > tableEnd THEN "return"
    ELSE IF LineLen(line) < zip7Padd THEN "continue"
    ELSE "append"

RECURSIVE zip7From(_, _, _, _)
zip7From(out, i, skipped, files) ==
    IF i > Len(out) THEN [files |-> files, panic |-> FALSE]
    ELSE LET step == zip7Line(out[i], skipped) IN
         CASE step = "count" -> zip7From(out, i + 1, skipped + 1, files)
           [] step = "continue" -> zip7From(out, i + 1, skipped, files)
           [] step = "return" -> [files |-> files, panic |-> FALSE]
           [] step = "panic" -> [files |-> <<>>, panic |-> TRUE]
           [] step = "append" ->
                zip7From(out, i + 1, skipped, Append(files, NamePadd(out[i], "3 files")))

zip7files(out) == zip7From(out, 1, 0, <<>>)

\* ------------------------------------------------------------ Content.Zip
\* the lines zipinfo -1 prints, each ended by a line feed, at most MaxOutLines of them
MaxOutLines == 2

ZipInfoLines == UNION {[1..n -> {"", " ", "TESTDAT1.TXT", "TESTDAT2.TXT"}] : n \in 0..MaxOutLines}

\* a run of zipinfo: whether it is found, whether it exits with a status other than 0,
\* whether it wrote to the standard error, and its output
ContentZipInputs ==
    [found : BOOLEAN, exit : {"ok", "fail"}, stderr : BOOLEAN, out : ZipInfoLines]

\* strings.TrimSpace(s) == ""
Blank(s) == s \in {"", " "}

NotBlank(s) == ~Blank(s)

\* Content.Zip(src) on a Content that is empty: the error and the fields of the Content
ContentZip(in) ==
    IF ~in.found THEN [err |-> "lookpath", Ext |-> "", Files |-> <<>>]
    ELSE IF in.exit # "ok"
    THEN IF in.stderr /\ in.out # <<>>
         THEN [err |-> "nil", Ext |-> "", Files |-> <<>>]
         ELSE [err |-> "zipinfo", Ext |-> "", Files |-> <<>>]
    ELSE IF in.out = <<>> THEN [err |-> "ErrRead", Ext |-> "", Files |-> <<>>]
    ELSE [err |-> "nil", Ext |-> ".zip", Files |-> SelectSeq(in.out, NotBlank)]

\* -------------------------------------------------------- rezip.Compress
\* the calls of Compress: what is at name (a file of size bytes, nothing or a directory),
\* what is at dest before the call, and whether the copy into the zip file fails
CompressInputs ==
    [name : {"file", "missing", "dir"}, size : 0..1,
     dest : {"free", "exists", "dir"}, copy : {"ok", "fail"}]

CompressName == Join("A", <<"TEST", "EXE">>)

CompressDest == Join("D", <<"zip_test", "zip">>)

Zipped == [dir |-> "zipped", name |-> <<>>]

\* the files before a call of Compress
CompressFiles(in) ==
    (IF in.name = "file" THEN CompressName :> SourceFile(CompressName) ELSE <<>>) @@
    (IF in.dest = "exists" THEN CompressDest :> OtherFile ELSE <<>>)

\* rezip.Compress(name, dest) on the files f: the size, the error and the files after
Compress(f, in, p) ==
    IF in.dest # "free"
    THEN [size |-> 0, err |-> "open dest", fs |-> f]
    ELSE LET g == (CompressDest :> [data |-> Zipped, by |-> p]) @@ f IN
         IF in.name = "missing" THEN [size |-> 0, err |-> "open name", fs |-> g]
         ELSE IF in.name = "dir" \/ in.copy = "fail"
         THEN [size |-> 0, err |-> "copy", fs |-> g]
         ELSE [size |-> in.size, err |-> "nil", fs |-> g]

\* the file system a function call starts from
FnFiles(c) ==
    CASE c.fn = "HardLink" -> HardLinkFiles(c.arg)
      [] c.fn = "Compress" -> CompressFiles(c.arg)
      [] OTHER -> <<>>

\* ---------------------------------------------------------- function calls
\* the function returns
Returns(fn, res) ==
    /\ call.fn = fn /\ ~call.done
    /\ call' = [call EXCEPT !.res = res, !.done = TRUE]
    /\ UNCHANGED <<req, pc, cur, via, targs, tmp, fs, rmlog, log, ret>>

CallMethods == Returns("Methods", Methods(call.arg))

CallZip == Returns("Zip", pkzipZip(call.arg))

CallExitStatus == Returns("ExitStatus", ExitStatus(call.arg))

CallTest == Returns("Test", Test(call.arg))

CallFoundLHA == Returns("foundLHA", foundLHA(call.arg))

CallReadme ==
    /\ call.fn = "Readme"
    /\ \E r \in Readme(call.arg) : Returns("Readme", r)

CallHardLink ==
    /\ call.fn = "HardLink" /\ ~call.done
    /\ \E link \in {"ok", "fail"} :
        LET r == HardLink(fs, call.arg.require, call.arg.src, link, 1) IN
        /\ call' = [call EXCEPT !.res = [name |-> r.name, err |-> r.err], !.done = TRUE]
        /\ fs' = r.fs
    /\ UNCHANGED <<req, pc, cur, via, targs, tmp, rmlog, log, ret>>

CallMagicExt == Returns("MagicExt", MagicExt(call.arg))

CallRead ==
    /\ call.fn = "Read"
    /\ \E rerr \in {"nil", "reader"} : Returns("Read", Read(call.arg, rerr))

CallArcFiles == Returns("arcFiles", arcFiles(call.arg))

CallArjFiles == Returns("arjFiles", arjFiles(call.arg))

CallLhaFiles == Returns("lhaFiles", lhaFiles(call.arg))

CallZip7Files == Returns("zip7files", zip7files(call.arg))

\* two calls of Readme with the same arguments, one after the other
CallReadmeTwice ==
    /\ call.fn = "ReadmeTwice"
    /\ \E r1 \in Readme(call.arg), r2 \in Readme(call.arg) :
        Returns("ReadmeTwice", [first |-> r1, second |-> r2])

CallContentZip == Returns("Content.Zip", ContentZip(call.arg))

CallCompress ==
    /\ call.fn = "Compress" /\ ~call.done
    /\ LET r == Compress(fs, call.arg, 1) IN
        /\ call' = [call EXCEPT !.res = [size |-> r.size, err |-> r.err], !.done = TRUE]
        /\ fs' = r.fs
    /\ UNCHANGED <<req, pc, cur, via, targs, tmp, rmlog, log, ret>>

\* ----------------------------------- the specification of the function calls
Called(fn, arg) == [fn |-> fn, arg |-> arg, res |-> <<>>, done |-> FALSE]

\* one call of one function, no extraction request
FnInit ==
    /\ \/ \E f \in ZipFiles : call = Called("Methods", f)
       \/ \E f \in ZipFiles : call = Called("Zip", f)
       \/ \E c \in Statuses : call = Called("ExitStatus", c)
       \/ \E in \in TestInputs : call = Called("Test", in)
       \/ \E m \in Magics : call = Called("foundLHA", m)
       \/ \E in \in ReadmeInputs : call = Called("Readme", in)
       \/ \E in \in HardLinkInputs : call = Called("HardLink", in)
       \/ \E in \in MagicInputs : call = Called("MagicExt", in)
       \/ \E in \in MagicInputs : call = Called("Read", in)
       \/ \E out \in Listings("end") : call = Called("arcFiles", out)
       \/ \E out \in Listings("sep") :
            \E fn \in {"arjFiles", "lhaFiles", "zip7files"} : call = Called(fn, out)
       \/ \E in \in ReadmeInputs : call = Called("ReadmeTwice", in)
       \/ \E in \in ContentZipInputs : call = Called("Content.Zip", in)
       \/ \E in \in CompressInputs : call = Called("Compress", in)
    /\ req = [p \in Procs |-> CHOOSE r \in Requests : TRUE]
    /\ pc = [p \in Procs |-> "idle"]
    /\ fs = FnFiles(call)
    /\ InitRest

FnNext ==
    \/ CallMethods
    \/ CallZip
    \/ CallExitStatus
    \/ CallTest
    \/ CallFoundLHA
    \/ CallReadme
    \/ CallHardLink
    \/ CallMagicExt
    \/ CallRead
    \/ CallArcFiles
    \/ CallArjFiles
    \/ CallLhaFiles
    \/ CallZip7Files
    \/ CallReadmeTwice
    \/ CallContentZip
    \/ CallCompress

FnSpec == FnInit /\ [][FnNext]_vars

\* --------------------------------------------------- properties of functions
MethodsOf(file) == [i \in 1..Len(file.entries) |-> Compression(file.entries[i].code)]

Encrypted(file) == \E i \in 1..Len(file.entries) : file.entries[i].enc

\* C15: pkzip.Zip returns true exactly when Methods gives the methods without error and
\* every one of them is Stored or Deflated; a Shrunk, Reduced, Imploded or Reserved entry
\* makes it false; for a file that is not a ZIP it returns false and an error.
C15_ZipUsable ==
    (call.fn = "Zip" /\ call.done) =>
        LET f == call.arg
            m == Methods(f) IN
        /\ call.res.usable <=>
            (m.err = "nil" /\ \A i \in 1..Len(m.list) : m.list[i] \in {"Stored", "Deflated"})
        /\ (\E i \in 1..Len(f.entries) :
                Compression(f.entries[i].code) \in {"Shrunk", "Reduced", "Imploded", "Reserved"})
            => ~call.res.usable
        /\ ~f.zip => (~call.res.usable /\ call.res.err # "nil")

\* C15 witness: Zip returned false for a ZIP of a Stored and an Imploded entry
C15_Witness ==
    /\ call.fn = "Zip" /\ call.done
    /\ call.arg.zip /\ ~Encrypted(call.arg)
    /\ MethodsOf(call.arg) = <<"Stored", "Imploded">>
    /\ call.res = [usable |-> FALSE, err |-> "nil"]

\* C16: Methods on a ZIP with an encrypted entry returns the password error and no
\* list, not the methods read before that entry; whenever it fails the list is nil.
C16_MethodsPassword ==
    (call.fn = "Methods" /\ call.done) =>
        /\ (call.arg.zip /\ Encrypted(call.arg)) =>
            call.res = [list |-> <<>>, err |-> "ErrPassParse"]
        /\ call.res.err # "nil" => call.res.list = <<>>
        /\ (call.arg.zip /\ ~Encrypted(call.arg)) =>
            call.res = [list |-> MethodsOf(call.arg), err |-> "nil"]

\* C16 witness: Methods returned for a ZIP whose second entry is encrypted
C16_Witness ==
    /\ call.fn = "Methods" /\ call.done
    /\ Len(call.arg.entries) = 2
    /\ ~call.arg.entries[1].enc /\ call.arg.entries[2].enc
    /\ call.res.err = "ErrPassParse"

\* C17: ExitStatus is total: it gives Normal for status 0, Warning for status 1,
\* ZipNotFound for the status of an archive that is not found, and UnknownStatus, not
\* an error, for every status that is not documented.
C17_ExitStatusTotal ==
    (call.fn = "ExitStatus" /\ call.done) =>
        /\ call.res \in Diagnostics
        /\ call.arg = 0 => call.res = "Normal"
        /\ call.arg = 1 => call.res = "Warning"
        /\ call.arg = 9 => call.res = "ZipNotFound"
        /\ call.arg \notin DocumentedStatuses => call.res = "UnknownStatus"

\* C17 witness: ExitStatus returned for a status above every documented one
C17_Witness ==
    /\ call.fn = "ExitStatus" /\ call.done
    /\ \A c \in DocumentedStatuses : call.arg > c
    /\ call.res = "UnknownStatus"

\* C18: rezip.Test returns nil exactly when it ran unzip and unzip ended with status 0
\* or a status classified Normal or Warning; it returns ErrTest for every other
\* diagnostic; for a directory or an empty file it returns ErrTest without running unzip.
C18_TestResult ==
    (call.fn = "Test" /\ call.done) =>
        LET in == call.arg
            benign == in.status = 0 \/ ExitStatus(in.status) \in {"Normal", "Warning"} IN
        /\ call.res.ran <=> (in.found /\ in.stat = "file")
        /\ call.res.err = "nil" <=> (call.res.ran /\ benign)
        /\ (call.res.ran /\ ~benign) => call.res.err = "ErrTest"
        /\ (in.found /\ in.stat \in {"dir", "empty"}) =>
            call.res = [err |-> "ErrTest", ran |-> FALSE]

\* C18 witness: unzip ended with a warning and Test returned nil
C18_Witness ==
    /\ call.fn = "Test" /\ call.done
    /\ call.arg.found /\ call.arg.stat = "file"
    /\ call.arg.status # 0 /\ ExitStatus(call.arg.status) = "Warning"
    /\ call.res = [err |-> "nil", ran |-> TRUE]

\* C19: foundLHA returns true for a description whose first word is "lharc" and for one
\* of the form "lha ... archive data" (the words "archive data" right after "lha" or
\* after one more word), and returns false for every other description.
C19_FoundLHA ==
    (call.fn = "foundLHA" /\ call.done) =>
        LET s == call.arg
            lha == \/ s[1] = "lharc"
                   \/ /\ s[1] = "lha"
                      /\ \/ Len(s) >= 3 /\ SubSeq(s, 2, 3) = <<"archive", "data">>
                         \/ Len(s) >= 4 /\ SubSeq(s, 3, 4) = <<"archive", "data">> IN
        call.res = IF lha THEN "true" ELSE "false"

\* the claimed order of priority, compared without regard to case: the place of a file
\* name in it, one past its end for a name that is in none of its classes
Priority(f, stem) ==
    LET same(a, b) == Lower(a) = Lower(b)
        order == << same(f.stem, stem) /\ same(f.ext, "nfo"),
                    same(f.stem, stem) /\ same(f.ext, "txt"),
                    same(f.ext, "nfo"),
                    same(f.stem, "FILE_ID") /\ same(f.ext, "DIZ"),
                    same(f.stem, stem) /\ same(f.ext, "diz"),
                    same(f.ext, "txt"),
                    same(f.ext, "diz") >>
        places == {i \in 1..Len(order) : order[i]} IN
    IF places = {} THEN Len(order) + 1
    ELSE CHOOSE i \in places : \A j \in places : i <= j

\* C20: Readme returns one of the given names of the highest priority in the order
\* <stem>.nfo, <stem>.txt, any .nfo, FILE_ID.DIZ, <stem>.diz, any .txt, any .diz, compared
\* without regard to case; it returns the empty string when no name has a .nfo, .txt or
\* .diz extension; a result that is not empty is one of the given names.
C20_ReadmePriority ==
    (call.fn = "Readme" /\ call.done) =>
        LET files == call.arg.files
            stem == call.arg.filename
            given == {files[i] : i \in 1..Len(files)}
            texts == {f \in given : Lower(f.ext) \in {"nfo", "txt", "diz"}} IN
        /\ texts = {} <=> call.res = NoName
        /\ call.res # NoName =>
            /\ call.res \in given
            /\ \A f \in given : Priority(call.res, stem) <= Priority(f, stem)

\* C20 witness: Readme returned FILE_ID.DIZ though the archive's own .diz was given first
C20_Witness ==
    /\ call.fn = "Readme" /\ call.done
    /\ call.arg.filename = "APP"
    /\ call.arg.files = <<[stem |-> "app", ext |-> "DIZ"], [stem |-> "FILE_ID", ext |-> "DIZ"]>>
    /\ call.res = [stem |-> "FILE_ID", ext |-> "DIZ"]

\* the source file name ends with the required extension, compared without regard to case
HasExt(name, require) ==
    LET t == Tail(require) IN
    /\ Len(name) > Len(t)
    /\ EqualFold(SubSeq(name, Len(name) - Len(t) + 1, Len(name)), t)

\* C21: HardLink returns an error for a require that is not of the form ".ext"; it returns
\* the empty string and creates nothing when the source file name already ends with the
\* required extension, of one part or of several, whatever the case; otherwise, unless the
\* link cannot be made, it returns the path src+require and a file is at that path.
C21_HardLink ==
    (call.fn = "HardLink" /\ call.done) =>
        LET in == call.arg IN
        IF in.require[1] # "" \/ Len(in.require) < 2
        THEN call.res.err # "nil"
        ELSE IF HasExt(in.src.name, in.require)
        THEN call.res = [name |-> NoPath, err |-> "nil"] /\ fs = HardLinkFiles(in)
        ELSE call.res.err = "nil" =>
                /\ call.res.name = HardLinkName(in)
                /\ Exists(fs, HardLinkName(in))

\* C22: for every extension MagicExt returns without an error, Content.Read dispatches
\* to a reader: it does not end in the fall-through that returns ErrRead.
C22_ReadDispatches ==
    (call.fn = "Read" /\ call.done /\ MagicExt(call.arg).err = "nil") =>
        call.res.reader # "none"

\* C23: foundLHA returns true or false for every description, so that MagicExt ends with
\* a returned extension or a returned error.
C23_NoPanic ==
    /\ (call.fn = "foundLHA" /\ call.done) => call.res \in {"true", "false"}
    /\ (call.fn = "MagicExt" /\ call.done) => call.res.err # "panic"

\* C24: arcFiles and arjFiles return a list for every output of the list command, also
\* for one with empty lines or with lines shorter than the column of the name.
C24_ParsersReturn ==
    (call.fn \in {"arcFiles", "arjFiles"} /\ call.done) => ~call.res.panic

\* the rows of a listing between its first and its last separator, in order
TableRows(out) ==
    LET seps == {i \in DOMAIN out : out[i] = "sep"}
        open == CHOOSE i \in seps : \A j \in seps : i <= j
        close == CHOOSE i \in seps : \A j \in seps : j <= i
        IsRow(line) == line \in Rows IN
    SelectSeq(SubSeq(out, open + 1, close - 1), IsRow)

C26_ArjKeepsFile ==
    \A r \in rmlog : r.path = LinkOf(req[r.by].src) => r.creator # 0

\* C27: Extractor.LHA does not modify the caller's targets: the targets of a request
\* stay the names the caller passed, which are those of TargetSeqs.
C27_TargetsKept ==
    \A p \in Procs : req[p].targets \in TargetSeqs

\* C28: Readme is deterministic: two calls with the same archive name and the same files
\* return the same file, also when several files have the same priority.
C28_ReadmeDeterministic ==
    (call.fn = "ReadmeTwice" /\ call.done) => call.res.first = call.res.second

\* C29: whenever Content.Zip returns nil, the Ext of the Content is ".zip" and its Files
\* are the lines of the zipinfo output that are not blank, in order, also when zipinfo
\* ends with a status other than 0 after it printed output and a diagnostic.
C29_ZipContent ==
    (call.fn = "Content.Zip" /\ call.done /\ call.res.err = "nil") =>
        /\ call.res.Ext = ".zip"
        /\ call.res.Files =
            SelectSeq(call.arg.out, LAMBDA s : s \notin {"", " "})

\* C30: when Compress returns an error the size it returns is 0 and no file is at dest
\* that was not there before the call.
C30_CompressFails ==
    (call.fn = "Compress" /\ call.done /\ call.res.err # "nil") =>
        /\ call.res.size = 0
        /\ Exists(fs, CompressDest) => call.arg.dest = "exists"

====
